---- MODULE Spec2Model ----
(***************************************************************************)
(* A model of the patch store (src/patchstore.py) and of the incremental   *)
(* Bugzilla crawler (src/bugzillapatchcrawler.py).                         *)
(*                                                                         *)
(* Conventions                                                             *)
(*   - time is an integer number of half hours (Hour == 2, Day == 48);     *)
(*   - a timestamp string is a record [t, sep, tail]: the instant, the     *)
(*     character between date and time, and whatever follows the time;     *)
(*     datetime.fromisoformat accepts it when the tail is empty and the    *)
(*     separator is "T" or " ";                                            *)
(*   - an optional argument is a sequence: <<>> is None, <<v>> is v;       *)
(*   - a file name is a sequence of tokens, "." being the dot;             *)
(*   - an origin, and the term of a search by origin, is a sequence of     *)
(*     one-character strings;                                              *)
(*   - bytes are sequences of integers 0..255, base64 text is a sequence   *)
(*     of sextets 0..63 with Pad for "=";                                  *)
(*   - sha256 is modelled as a collision-free digest: the digest of a      *)
(*     text is the text itself, tagged with the algorithm's name.          *)
(***************************************************************************)
EXTENDS Integers, Sequences, FiniteSets, TLC

VARIABLES
    clock,          \* datetime.now()
    store,          \* the rows of table patches, in insertion order
    \* ---- a client calling PatchStore.add through one handle
    nAdds,          \* number of add calls made so far
    lastCall,       \* <<>> or <<[arguments and result of the last add call]>>
    prevRows,       \* the table as it was before the last add call
    lastSearch,     \* <<>> or <<[the last exists or search call since then]>>
    \* ---- two writers on the same backing file
    wpc,            \* writer -> "idle" | "exists" | "write" | "returned"
    wrow,           \* writer -> <<>> or <<the row its add has computed>>
    wfound,         \* writer -> what its exists() returned
    wlast,          \* the writer whose INSERT/UPDATE statement ran last (0: none)
    \* ---- BugzillaPatchCrawler
    watermark,      \* self.timestamp
    pc,             \* "idle" | "query" | "loop" | "raised"
    newts,          \* local newts of crawl()
    bugs,           \* local bugs of crawl(): the work queue
    total,          \* local total of crawl()
    \* ---- what one crawl() invocation was observed to do
    inv,            \* a record, see NoInvocation
    \* ---- session_get_with_retries (src/utils/misc.py)
    gpc,            \* "idle" | "loop" | "returned" | "raised"
    tries0,         \* the argument tries
    tries,          \* the local tries
    attempts,       \* how each session.get call ended, in order
    gret,           \* what was returned: <<>> is None, <<k>> the k-th response
    \* ---- OpenSuseSourceFetcher (src/source_pool_fetcher.py)
    metadata,       \* target -> the version the repository lists for it now
    disk,           \* target -> its package directory, see NoDirectory
    fpc,            \* "idle" | "check" | "clean" | "download" | "extract"
    fqueue,         \* the (collection, package, url) entries still to visit
    members,        \* the members of the downloaded rpm still to extract
    nRuns,          \* number of fetch_sources runs started
    run,            \* what the last fetch_sources run was observed to do
    \* ---- RepoHelper.get_source_packages (src/utils/repos.py)
    rpc,            \* "idle" | "loop" | "returned"
    doc,            \* the package entries of the primary metadata that was read
    primary,        \* the entries of doc still to visit
    packages,       \* the dict of the loop: Packages in the order of insertion
    sources,        \* the list that was returned
    lastCmp         \* <<>>, or the last newest_package call and what it returned

vars == <<clock, store, nAdds, lastCall, prevRows, lastSearch, wpc, wrow, wfound,
          wlast, watermark, pc, newts, bugs, total, inv,
          gpc, tries0, tries, attempts, gret,
          metadata, disk, fpc, fqueue, members, nRuns, run,
          rpc, doc, primary, packages, sources, lastCmp>>

storeClientVars == <<nAdds, lastCall, prevRows, lastSearch>>
writerVars == <<wpc, wrow, wfound, wlast>>
crawlerVars == <<watermark, pc, newts, bugs, total, inv>>
getterVars == <<gpc, tries0, tries, attempts, gret>>
fetcherVars == <<metadata, disk, fpc, fqueue, members, nRuns, run>>
repoVars == <<rpc, doc, primary, packages, sources, lastCmp>>
poolVars == <<getterVars, fetcherVars, repoVars>>

----------------------------------------------------------------------------
(* Bounds of the model *)

MaxClock == 4
MaxStoreClock == 1
MaxAdds == 3
MaxBugs == 2
MaxRetries == 2
MaxSeedDays == 2
MaxTries == 4
MaxVersion == 2
MaxRuns == 2
MaxEntries == 3

----------------------------------------------------------------------------
(* Program constants *)

Hour == 2
Day == 48
Pad == 64

----------------------------------------------------------------------------
(* Plain helpers *)

Min(a, b) == IF a < b THEN a ELSE b

----------------------------------------------------------------------------
(* src/patchstore.py *)

\* base64.b64encode: three bytes become four sextets, the last group padded.
RECURSIVE b64encode(_)
b64encode(bytes) ==
    IF Len(bytes) = 0 THEN <<>>
    ELSE IF Len(bytes) = 1 THEN
        <<bytes[1] \div 4, (bytes[1] % 4) * 16, Pad, Pad>>
    ELSE IF Len(bytes) = 2 THEN
        <<bytes[1] \div 4, (bytes[1] % 4) * 16 + bytes[2] \div 16,
          (bytes[2] % 16) * 4, Pad>>
    ELSE
        <<bytes[1] \div 4, (bytes[1] % 4) * 16 + bytes[2] \div 16,
          (bytes[2] % 16) * 4 + bytes[3] \div 64, bytes[3] % 64>>
        \o b64encode(SubSeq(bytes, 4, Len(bytes)))

\* f'{hash.name}:{hash.hexdigest()}' of the encoded content.
compute_checksum(encoded_content) == <<"sha256", encoded_content>>

\* The extension of a file name: the tokens after its last dot, <<>> if none
\* (a leading dot starts no extension).
Extension(filename) ==
    LET dots == {i \in DOMAIN filename : i > 1 /\ filename[i] = "."}
    IN  IF dots = {} THEN <<>>
        ELSE LET last == CHOOSE i \in dots : \A j \in dots : j <= i
             IN  SubSeq(filename, last + 1, Len(filename))

\* mimetypes.guess_type(filename)[0]
guess_type(filename) ==
    LET ext == Extension(filename)
    IN  IF ext \in {<<"patch">>, <<"diff">>} THEN "text/x-diff"
        ELSE IF ext = <<"txt">> THEN "text/plain"
        ELSE "None"

\* datetime.fromisoformat(s) succeeds
IsoParses(s) == s.tail = "" /\ s.sep \in {"T", " "}

\* datetime.fromisoformat(s), for a string that parses
fromisoformat(s) == s.t

\* d.isoformat(sep=sep)
isoformat(d, sep) == [t |-> d, sep |-> sep, tail |-> ""]

\* The checks of add with the content looked at before the file name's type.
Validate_ContentFirst(filename, content, producer, origin, timestamp) ==
    IF filename = <<>> THEN
        "Storing a patch requires a filename to identify the patch"
    ELSE IF content = <<>> THEN "Empty patch contents"
    ELSE IF guess_type(filename) \notin {"text/x-diff", "text/x-patch"} THEN
        "Filename does not match that of a patch file"
    ELSE IF producer = "" THEN "Empty producer"
    ELSE IF origin = <<>> THEN "Empty origin"
    ELSE IF timestamp # <<>> /\ ~IsoParses(timestamp[1]) THEN
        "Invalid timestamp format"
    ELSE ""

\* The checks of add, in the order of the code; "" when all pass, else the
\* message logged.
Validate(filename, content, producer, origin, timestamp) ==
    IF filename = <<>> THEN
        "Storing a patch requires a filename to identify the patch"
    ELSE IF guess_type(filename) \notin {"text/x-diff", "text/x-patch"} THEN
        "Filename does not match that of a patch file"
    ELSE IF content = <<>> THEN "Empty patch contents"
    ELSE IF producer = "" THEN "Empty producer"
    ELSE IF origin = <<>> THEN "Empty origin"
    ELSE IF timestamp # <<>> /\ ~IsoParses(timestamp[1]) THEN
        "Invalid timestamp format"
    ELSE ""

\* A stored timestamp that is always the wall clock, whatever was given.
StoredTimestamp_AlwaysNow(timestamp, now) == isoformat(now, " ")

\* The timestamp add stores: the one given, normalised, or now.
StoredTimestamp(timestamp, now) ==
    IF timestamp # <<>> THEN isoformat(fromisoformat(timestamp[1]), " ")
    ELSE isoformat(now, " ")

\* The row add writes.
NewRow(filename, content, producer, origin, timestamp, now) ==
    LET encoded_content == b64encode(content)
    IN  [filename |-> filename, content |-> encoded_content,
         checksum |-> compute_checksum(encoded_content),
         producer |-> producer, origin |-> origin,
         timestamp |-> StoredTimestamp(timestamp, now)]

\* A key of filename and origin only.
SameKey_IgnoresProducer(r, filename, producer, origin) ==
    r.filename = filename /\ r.origin = origin

SameKey(r, filename, producer, origin) ==
    r.filename = filename /\ r.producer = producer /\ r.origin = origin

\* exists, looking at the first row of the table only.
exists_FirstRowOnly(rows, filename, producer, origin) ==
    rows # <<>> /\ SameKey(rows[1], filename, producer, origin)

\* SELECT * from patches WHERE filename = ? AND producer = ? AND origin = ?
exists(rows, filename, producer, origin) ==
    \E i \in DOMAIN rows : SameKey(rows[i], filename, producer, origin)

\* An INSERT into a table emptied first.
InsertRow_Truncates(rows, row) == <<row>>

\* INSERT INTO patches(...) VALUES(...)
InsertRow(rows, row) == Append(rows, row)

\* UPDATE whose WHERE clause leaves the producer out.
UpdateRows_NoProducer(rows, row) ==
    [i \in DOMAIN rows |->
        IF rows[i].filename = row.filename /\ rows[i].origin = row.origin
        THEN [rows[i] EXCEPT !.content = row.content,
                             !.checksum = row.checksum,
                             !.timestamp = row.timestamp]
        ELSE rows[i]]

\* UPDATE patches SET content, checksum, timestamp WHERE the key matches
UpdateRows(rows, row) ==
    [i \in DOMAIN rows |->
        IF SameKey(rows[i], row.filename, row.producer, row.origin)
        THEN [rows[i] EXCEPT !.content = row.content,
                             !.checksum = row.checksum,
                             !.timestamp = row.timestamp]
        ELSE rows[i]]

\* The write of add, given what exists() returned.
WriteRow(rows, row, found) ==
    IF ~found THEN InsertRow(rows, row) ELSE UpdateRows(rows, row)

\* An add that writes the row before it looks at the timestamp.
add_WriteFirst(rows, filename, content, producer, origin, timestamp, now) ==
    LET early == Validate(filename, content, producer, origin, <<>>)
        reason == Validate(filename, content, producer, origin, timestamp)
        row == NewRow(filename, content, producer, origin, <<>>, now)
        written == WriteRow(rows, row, exists(rows, filename, producer, origin))
    IN  IF early # "" THEN [result |-> FALSE, reason |-> early, rows |-> rows]
        ELSE IF reason # "" THEN
            [result |-> FALSE, reason |-> reason, rows |-> written]
        ELSE [result |-> TRUE, reason |-> "",
              rows |-> WriteRow(rows, NewRow(filename, content, producer, origin,
                                             timestamp, now),
                                exists(rows, filename, producer, origin))]

\* PatchStore.add as one call through one handle: the result, the message
\* logged on failure, and the table afterwards.
add(rows, filename, content, producer, origin, timestamp, now) ==
    LET reason == Validate(filename, content, producer, origin, timestamp)
        row == NewRow(filename, content, producer, origin, timestamp, now)
    IN  IF reason # "" THEN [result |-> FALSE, reason |-> reason, rows |-> rows]
        ELSE [result |-> TRUE, reason |-> "",
              rows |-> WriteRow(rows, row,
                                exists(rows, filename, producer, origin))]


\* The searches yield the rows their SELECT matches, in table order, each
\* as a Patch of the row's six columns (_search_query).

\* SELECT * FROM patches WHERE filename = ?
search_by_filename(rows, filename) ==
    SelectSeq(rows, LAMBDA r : r.filename = filename)

\* SELECT * FROM patches WHERE producer = ?
search_by_producer(rows, producer) ==
    SelectSeq(rows, LAMBDA r : r.producer = producer)

\* The ASCII letters, which LIKE compares without regard to case.
AsciiUpper ==
    <<"A", "B", "C", "D", "E", "F", "G", "H", "I", "J", "K", "L", "M",
      "N", "O", "P", "Q", "R", "S", "T", "U", "V", "W", "X", "Y", "Z">>
AsciiLower ==
    <<"a", "b", "c", "d", "e", "f", "g", "h", "i", "j", "k", "l", "m",
      "n", "o", "p", "q", "r", "s", "t", "u", "v", "w", "x", "y", "z">>
Fold(c) ==
    IF \E i \in DOMAIN AsciiUpper : AsciiUpper[i] = c
    THEN AsciiLower[CHOOSE i \in DOMAIN AsciiUpper : AsciiUpper[i] = c]
    ELSE c

\* text LIKE pattern, as SQLite evaluates it: "%" matches any run of
\* characters, "_" any one character, there is no escape character, and
\* ASCII letters match in either case.
RECURSIVE Like(_, _)
Like(pattern, text) ==
    IF pattern = <<>> THEN text = <<>>
    ELSE IF Head(pattern) = "%" THEN
        \/ Like(Tail(pattern), text)
        \/ text # <<>> /\ Like(pattern, Tail(text))
    ELSE /\ text # <<>>
         /\ Head(pattern) = "_" \/ Fold(Head(pattern)) = Fold(Head(text))
         /\ Like(Tail(pattern), Tail(text))

\* SELECT * FROM patches WHERE origin LIKE ? || "%"
search_by_origin(rows, origin) ==
    SelectSeq(rows, LAMBDA r : Like(origin \o <<"%">>, r.origin))

\* A search by content that hashes the content as given, not its encoding.
search_by_content_RawChecksum(rows, content) ==
    SelectSeq(rows, LAMBDA r : r.checksum = compute_checksum(content))

\* SELECT * FROM patches WHERE checksum = ?, the checksum being that of the
\* encoded content.
search_by_content(rows, content) ==
    LET encoded_content == b64encode(content)
        checksum == compute_checksum(encoded_content)
    IN  SelectSeq(rows, LAMBDA r : r.checksum = checksum)

----------------------------------------------------------------------------
(* The arguments the clients of the store draw from *)

FixPatch == <<"fix", ".", "patch">>
NotesTxt == <<"notes", ".", "txt">>

Filenames == {<<>>, FixPatch, NotesTxt}
Contents == {<<>>, <<77>>, <<77, 97>>}
Producers == {"", "A", "B"}
Url1 == <<"u", "/", "1">>
Url2 == <<"u", "/", "2">>
Origins == {<<>>, Url1}
Timestamps ==
    {<<>>, <<[t |-> 0, sep |-> "T", tail |-> ""]>>,
     <<[t |-> 3, sep |-> " ", tail |-> " UTC"]>>}

----------------------------------------------------------------------------
(* A client of one PatchStore handle *)

StoreAdd ==
    /\ nAdds < MaxAdds
    /\ \E filename \in Filenames, content \in Contents, producer \in Producers,
          origin \in Origins, timestamp \in Timestamps :
        LET r == add(store, filename, content, producer, origin, timestamp, clock)
        IN  /\ store' = r.rows
            /\ lastCall' = <<[filename |-> filename, content |-> content,
                              producer |-> producer, origin |-> origin,
                              timestamp |-> timestamp, now |-> clock,
                              result |-> r.result, reason |-> r.reason]>>
    /\ prevRows' = store
    /\ lastSearch' = <<>>
    /\ nAdds' = nAdds + 1
    /\ UNCHANGED <<poolVars, clock, writerVars, crawlerVars>>

\* The timestamps a client re-adding a patch passes: none, one in the past
\* of every clock value, one in the future of every clock value.
Past == <<[t |-> 0, sep |-> "T", tail |-> ""]>>
Future == <<[t |-> MaxStoreClock + 2, sep |-> " ", tail |-> ""]>>
GivenTimestamps == {<<>>, Past, Future}

\* A client that adds valid patches under the keys of two producers, again
\* and again (test_update_patch_timestamp adds the same patch twice).
ReAdd ==
    /\ nAdds < MaxAdds
    /\ \E content \in Contents \ {<<>>}, producer \in Producers \ {""},
          timestamp \in GivenTimestamps :
        LET r == add(store, FixPatch, content, producer, Url1, timestamp, clock)
        IN  /\ store' = r.rows
            /\ lastCall' = <<[filename |-> FixPatch, content |-> content,
                              producer |-> producer, origin |-> Url1,
                              timestamp |-> timestamp, now |-> clock,
                              result |-> r.result, reason |-> r.reason]>>
    /\ prevRows' = store
    /\ lastSearch' = <<>>
    /\ nAdds' = nAdds + 1
    /\ UNCHANGED <<poolVars, clock, writerVars, crawlerVars>>

\* A client that fills the store with patches of two origins and looks
\* them up.
AddPatch ==
    /\ nAdds < MaxAdds
    /\ \E content \in Contents \ {<<>>}, origin \in {Url1, Url2} :
        LET r == add(store, FixPatch, content, "A", origin, <<>>, clock)
        IN  /\ store' = r.rows
            /\ lastCall' = <<[filename |-> FixPatch, content |-> content,
                              producer |-> "A", origin |-> origin,
                              timestamp |-> <<>>, now |-> clock,
                              result |-> r.result, reason |-> r.reason]>>
    /\ prevRows' = store
    /\ lastSearch' = <<>>
    /\ nAdds' = nAdds + 1
    /\ UNCHANGED <<poolVars, clock, writerVars, crawlerVars>>

\* What a lookup is recorded as: the operation, its argument, the boolean
\* exists returned, the patches a search yielded.
Lookup(op, term, found, rows) ==
    <<[op |-> op, term |-> term, found |-> found, rows |-> rows]>>

\* The terms the client searches origins for: prefixes of the stored URLs,
\* in their case and in the other, with and without LIKE's wildcards, and a
\* term that is a prefix of none.
OriginTerms ==
    {<<>>, <<"u", "/">>, Url1, <<"U", "/">>, <<"u", "_", "2">>, <<"%", "2">>,
     <<"x">>}

\* The contents the client searches for: those it stores and one it never
\* stores.
ContentTerms == (Contents \ {<<>>}) \cup {<<97>>}

ExistsCall ==
    /\ \E producer \in {"A", "B"}, origin \in {Url1, Url2} :
        lastSearch' = Lookup("exists", <<FixPatch, <<producer>>, origin>>,
                             exists(store, FixPatch, producer, origin), <<>>)
    /\ UNCHANGED <<poolVars, clock, store, nAdds, lastCall, prevRows, writerVars, crawlerVars>>

SearchByFilename ==
    /\ \E filename \in {FixPatch, NotesTxt} :
        lastSearch' = Lookup("filename", filename, FALSE,
                             search_by_filename(store, filename))
    /\ UNCHANGED <<poolVars, clock, store, nAdds, lastCall, prevRows, writerVars, crawlerVars>>

SearchByProducer ==
    /\ \E producer \in {"A", "B"} :
        lastSearch' = Lookup("producer", <<producer>>, FALSE,
                             search_by_producer(store, producer))
    /\ UNCHANGED <<poolVars, clock, store, nAdds, lastCall, prevRows, writerVars, crawlerVars>>

SearchByOrigin ==
    /\ \E origin \in OriginTerms :
        lastSearch' = Lookup("origin", origin, FALSE,
                             search_by_origin(store, origin))
    /\ UNCHANGED <<poolVars, clock, store, nAdds, lastCall, prevRows, writerVars, crawlerVars>>

SearchByContent ==
    /\ \E content \in ContentTerms :
        lastSearch' = Lookup("content", content, FALSE,
                             search_by_content(store, content))
    /\ UNCHANGED <<poolVars, clock, store, nAdds, lastCall, prevRows, writerVars, crawlerVars>>

\* Time passing while the crawler runs or waits.
Tick ==
    /\ clock < MaxClock
    /\ clock' = clock + 1
    /\ UNCHANGED <<poolVars, store, storeClientVars, writerVars, crawlerVars>>

----------------------------------------------------------------------------
(* The bug tracker, as the crawler sees it *)

\* The bugs of the tracker; a query may return a bug more than once.
BugIds == {1, 2}

\* bug.weburl
weburl(bug) == IF bug = 1 THEN Url1 ELSE Url2

\* The attachments a bug may carry.
Attachment(is_patch, file_name, data, t) ==
    [is_patch |-> is_patch, file_name |-> file_name, data |-> data,
     last_change_time |-> isoformat(t, "T")]

NotAPatch == Attachment(FALSE, FixPatch, <<77>>, 3)
PatchAt2 == Attachment(TRUE, FixPatch, <<77>>, 2)
PatchAt3 == Attachment(TRUE, FixPatch, <<77, 97>>, 3)
BadName == Attachment(TRUE, NotesTxt, <<77>>, 3)

SeqsUpTo(S, n) == UNION {[1..k -> S] : k \in 0..n}

\* What bug.get_attachments() may return (the three attachments of
\* test_crawl among them), and what bz.query(query) may return.
AttachmentLists ==
    {<<>>, <<PatchAt2>>, <<BadName, PatchAt3>>, <<PatchAt3, PatchAt2>>,
     <<NotAPatch, PatchAt2, PatchAt3>>}
QueryResults == SeqsUpTo(BugIds, MaxBugs)

----------------------------------------------------------------------------
(* src/bugzillapatchcrawler.py *)

\* PatchCrawler.name, set by BugzillaPatchCrawler.__init__
CrawlerName == "Bugzilla patch crawler"

\* The debounce with half an hour for the hour.
Debounced_HalfHour(elapsed) == elapsed < Hour - 1

\* A debounce that also swallows the invocation made exactly an hour later.
Debounced_Inclusive(elapsed) == elapsed <= Hour

\* elapsed < timedelta(hours=1)
Debounced(elapsed) == elapsed < Hour

\* A window of the days begun, not of the days completed plus one.
QueryDays_Ceiling(elapsed) == (elapsed + Day - 1) \div Day

\* str(elapsed.days + 1), the v1 of the query
QueryDays(elapsed) == elapsed \div Day + 1

\* The filters with < for <=: an attachment changed at the watermark passes.
Skipped_NotStrict(attachment, timestamp) ==
    \/ ~attachment.is_patch
    \/ fromisoformat(attachment.last_change_time) < timestamp

\* The attachment is skipped by the two filters of the for loop.
Skipped(attachment, timestamp) ==
    \/ ~attachment.is_patch
    \/ fromisoformat(attachment.last_change_time) <= timestamp

\* A for loop that counts every patch it hands to the store.
RECURSIVE ProcessAttachments_CountsEveryCall(_, _, _, _, _, _)
ProcessAttachments_CountsEveryCall(attachments, url, timestamp, now, rows, acc) ==
    IF attachments = <<>> THEN [rows |-> rows, total |-> acc.total, calls |-> acc.calls]
    ELSE LET attachment == Head(attachments)
             lastchange == fromisoformat(attachment.last_change_time)
             r == add(rows, attachment.file_name, attachment.data, CrawlerName,
                      url, <<isoformat(lastchange, " ")>>, now)
             call == [filename |-> attachment.file_name, content |-> attachment.data,
                      producer |-> CrawlerName, origin |-> url,
                      timestamp |-> <<isoformat(lastchange, " ")>>,
                      result |-> r.result]
         IN  IF Skipped(attachment, timestamp)
             THEN ProcessAttachments_CountsEveryCall(Tail(attachments), url,
                      timestamp, now, rows, acc)
             ELSE ProcessAttachments_CountsEveryCall(Tail(attachments), url,
                      timestamp, now, r.rows,
                      [total |-> acc.total + 1, calls |-> Append(acc.calls, call)])

\* A for loop that ends at the first attachment the store rejects.
RECURSIVE ProcessAttachments_StopsAtRejection(_, _, _, _, _, _)
ProcessAttachments_StopsAtRejection(attachments, url, timestamp, now, rows, acc) ==
    IF attachments = <<>> THEN [rows |-> rows, total |-> acc.total, calls |-> acc.calls]
    ELSE LET attachment == Head(attachments)
             lastchange == fromisoformat(attachment.last_change_time)
             r == add(rows, attachment.file_name, attachment.data, CrawlerName,
                      url, <<isoformat(lastchange, " ")>>, now)
             call == [filename |-> attachment.file_name, content |-> attachment.data,
                      producer |-> CrawlerName, origin |-> url,
                      timestamp |-> <<isoformat(lastchange, " ")>>,
                      result |-> r.result]
         IN  IF Skipped(attachment, timestamp)
             THEN ProcessAttachments_StopsAtRejection(Tail(attachments), url,
                      timestamp, now, rows, acc)
             ELSE IF ~r.result
             THEN [rows |-> rows, total |-> acc.total,
                   calls |-> Append(acc.calls, call)]
             ELSE ProcessAttachments_StopsAtRejection(Tail(attachments), url,
                      timestamp, now, r.rows,
                      [total |-> acc.total + 1, calls |-> Append(acc.calls, call)])

\* The for loop over the attachments of one bug: the table, the total and
\* the calls of Store.add made, in order.
RECURSIVE ProcessAttachments(_, _, _, _, _, _)
ProcessAttachments(attachments, url, timestamp, now, rows, acc) ==
    IF attachments = <<>> THEN [rows |-> rows, total |-> acc.total, calls |-> acc.calls]
    ELSE LET attachment == Head(attachments)
             lastchange == fromisoformat(attachment.last_change_time)
             r == add(rows, attachment.file_name, attachment.data, CrawlerName,
                      url, <<isoformat(lastchange, " ")>>, now)
             call == [filename |-> attachment.file_name, content |-> attachment.data,
                      producer |-> CrawlerName, origin |-> url,
                      timestamp |-> <<isoformat(lastchange, " ")>>,
                      result |-> r.result]
         IN  IF Skipped(attachment, timestamp)
             THEN ProcessAttachments(Tail(attachments), url, timestamp, now, rows, acc)
             ELSE ProcessAttachments(Tail(attachments), url, timestamp, now, r.rows,
                      [total |-> IF r.result THEN acc.total + 1 ELSE acc.total,
                       calls |-> Append(acc.calls, call)])

Message(msg, n, days) == [msg |-> msg, n |-> n, days |-> days]
SkipMessage ==
    Message("Not an hour has passed since last crawled, not doing anything.", 0, 0)

\* What an invocation of crawl() has been observed to do so far.
NoInvocation ==
    [outcome |-> "none",     \* "skipped" | "running" | "done" | "raised"
     timestamp0 |-> 0,       \* self.timestamp when crawl() was entered
     now0 |-> 0,             \* the clock when crawl() was entered
     late |-> FALSE,         \* crawl() returned after the clock had moved on
     lastStart |-> 0,        \* the clock when the last completed crawl was entered
     lastEnd |-> 0,          \* the clock when it returned (0: none completed yet)
     queries |-> <<>>,       \* the v1 of each bz.query call
     result |-> <<>>,        \* what bz.query returned
     processed |-> <<>>,     \* the bugs whose for loop ran, in order
     accepted |-> 0,         \* the Store.add calls that returned True
     attachments |-> <<>>,   \* what the last successful get_attachments returned
     calls |-> <<>>,         \* the Store.add calls made for those attachments
     attempted |-> FALSE,    \* get_attachments was called
     response |-> "none",    \* how the last get_attachments ended
     retries |-> 0,          \* consecutive 429 answers for the head bug
     throttled |-> FALSE,    \* some get_attachments was answered 429
     log |-> <<>>]           \* the INFO records logged

\* crawl(), from its entry to the debounce return or to the query.
CrawlBegin ==
    /\ pc \in {"idle", "raised"}
    /\ newts' = clock
    /\ total' = 0
    /\ bugs' = <<>>
    /\ LET elapsed == clock - watermark
           entered == [NoInvocation EXCEPT !.timestamp0 = watermark,
                                           !.now0 = clock,
                                           !.lastStart = inv.lastStart,
                                           !.lastEnd = inv.lastEnd]
       IN  IF Debounced(elapsed)
           THEN /\ pc' = "idle"
                /\ inv' = [entered EXCEPT !.outcome = "skipped",
                                          !.log = <<SkipMessage>>]
           ELSE /\ pc' = "query"
                /\ inv' = [entered EXCEPT !.outcome = "running",
                                          !.log = <<Message("Start crawling.", 0, 0)>>]
    /\ UNCHANGED <<poolVars, clock, store, watermark, storeClientVars, writerVars>>

\* bugs = self.bz.query(query) returns.
QueryOk ==
    /\ pc = "query"
    /\ \E result \in QueryResults :
        LET elapsed == newts - watermark
        IN  /\ bugs' = result
            /\ inv' = [inv EXCEPT !.queries = Append(@, QueryDays(elapsed)),
                                  !.result = result,
                                  !.log = Append(@, Message("Found", Len(result),
                                                            elapsed \div Day))]
    /\ pc' = "loop"
    /\ UNCHANGED <<poolVars, clock, store, watermark, newts, total, storeClientVars, writerVars>>

\* bugs = self.bz.query(query) raises.
QueryError ==
    /\ pc = "query"
    /\ pc' = "raised"
    /\ inv' = [inv EXCEPT !.queries = Append(@, QueryDays(newts - watermark)),
                          !.outcome = "raised"]
    /\ UNCHANGED <<poolVars, clock, store, watermark, newts, bugs, total, storeClientVars, writerVars>>

\* A 429 handler that pops the bug before retrying.
Fetch429_DropsBug ==
    /\ pc = "loop" /\ bugs # <<>>
    /\ bugs' = Tail(bugs)
    /\ inv' = [inv EXCEPT !.attempted = TRUE, !.response = "429",
                          !.throttled = TRUE,
                          !.retries = Min(@ + 1, MaxRetries)]
    /\ UNCHANGED <<poolVars, clock, store, watermark, pc, newts, total,
                   storeClientVars, writerVars>>

\* A 429 handler that gives up once MaxRetries answers were 429.
Fetch429_Budget ==
    /\ pc = "loop" /\ bugs # <<>>
    /\ pc' = IF inv.retries >= MaxRetries THEN "raised" ELSE "loop"
    /\ inv' = [inv EXCEPT !.attempted = TRUE, !.response = "429",
                          !.throttled = TRUE,
                          !.retries = Min(@ + 1, MaxRetries),
                          !.outcome = IF inv.retries >= MaxRetries
                                      THEN "raised" ELSE @]
    /\ UNCHANGED <<poolVars, clock, store, watermark, newts, bugs, total,
                   storeClientVars, writerVars>>

\* get_attachments raises HTTPError 429: warning, sleep, continue.
Fetch429 ==
    /\ pc = "loop" /\ bugs # <<>>
    /\ inv' = [inv EXCEPT !.attempted = TRUE, !.response = "429",
                          !.throttled = TRUE,
                          !.retries = Min(@ + 1, MaxRetries)]
    /\ UNCHANGED <<poolVars, clock, store, watermark, pc, newts, bugs, total,
                   storeClientVars, writerVars>>

\* get_attachments raises an HTTPError of another status: the except clause
\* catches it, its if does not match, and the while loop goes on.
FetchHttpError ==
    /\ pc = "loop" /\ bugs # <<>>
    /\ inv' = [inv EXCEPT !.attempted = TRUE, !.response = "http error",
                          !.retries = 0]
    /\ UNCHANGED <<poolVars, clock, store, watermark, pc, newts, bugs, total,
                   storeClientVars, writerVars>>

\* An abort that sets the watermark on its way out (as a finally clause would).
FetchError_SetsWatermark ==
    /\ pc = "loop" /\ bugs # <<>>
    /\ pc' = "raised"
    /\ watermark' = newts
    /\ inv' = [inv EXCEPT !.attempted = TRUE, !.response = "error",
                          !.retries = 0, !.outcome = "raised"]
    /\ UNCHANGED <<poolVars, clock, store, newts, bugs, total, storeClientVars, writerVars>>

\* get_attachments raises an exception that is no HTTPError: not caught.
FetchError ==
    /\ pc = "loop" /\ bugs # <<>>
    /\ pc' = "raised"
    /\ inv' = [inv EXCEPT !.attempted = TRUE, !.response = "error",
                          !.retries = 0, !.outcome = "raised"]
    /\ UNCHANGED <<poolVars, clock, store, watermark, newts, bugs, total,
                   storeClientVars, writerVars>>

\* An else clause that leaves the fetched bug at the head of the queue.
FetchOk_KeepsBug ==
    /\ pc = "loop" /\ bugs # <<>>
    /\ \E attachments \in AttachmentLists :
        LET bug == bugs[1]
            r == ProcessAttachments(attachments, weburl(bug), watermark, clock,
                                    store, [total |-> total, calls |-> <<>>])
        IN  /\ store' = r.rows
            /\ total' = r.total
            /\ inv' = [inv EXCEPT !.attempted = TRUE, !.response = "ok",
                                  !.retries = 0,
                                  !.processed = Append(@, bug),
                                  !.accepted = @ + Cardinality(
                                      {i \in DOMAIN r.calls : r.calls[i].result}),
                                  !.attachments = attachments,
                                  !.calls = r.calls]
    /\ UNCHANGED <<poolVars, clock, watermark, pc, newts, bugs, storeClientVars, writerVars>>

\* A for loop that filters against the start time of the running crawl.
FetchOk_FiltersByNewts ==
    /\ pc = "loop" /\ bugs # <<>>
    /\ \E attachments \in AttachmentLists :
        LET bug == bugs[1]
            r == ProcessAttachments(attachments, weburl(bug), newts, clock,
                                    store, [total |-> total, calls |-> <<>>])
        IN  /\ store' = r.rows
            /\ total' = r.total
            /\ inv' = [inv EXCEPT !.attempted = TRUE, !.response = "ok",
                                  !.retries = 0,
                                  !.processed = Append(@, bug),
                                  !.accepted = @ + Cardinality(
                                      {i \in DOMAIN r.calls : r.calls[i].result}),
                                  !.attachments = attachments,
                                  !.calls = r.calls]
    /\ bugs' = Tail(bugs)
    /\ UNCHANGED <<poolVars, clock, watermark, pc, newts, storeClientVars, writerVars>>

\* get_attachments returns: the else clause pops the bug and runs the for loop.
FetchOk ==
    /\ pc = "loop" /\ bugs # <<>>
    /\ \E attachments \in AttachmentLists :
        LET bug == bugs[1]
            r == ProcessAttachments(attachments, weburl(bug), watermark, clock,
                                    store, [total |-> total, calls |-> <<>>])
        IN  /\ store' = r.rows
            /\ total' = r.total
            /\ inv' = [inv EXCEPT !.attempted = TRUE, !.response = "ok",
                                  !.retries = 0,
                                  !.processed = Append(@, bug),
                                  !.accepted = @ + Cardinality(
                                      {i \in DOMAIN r.calls : r.calls[i].result}),
                                  !.attachments = attachments,
                                  !.calls = r.calls]
    /\ bugs' = Tail(bugs)
    /\ UNCHANGED <<poolVars, clock, watermark, pc, newts, storeClientVars, writerVars>>

\* A finish that reads the clock again for the watermark.
CrawlFinish_ClockAtCompletion ==
    /\ pc = "loop" /\ bugs = <<>>
    /\ watermark' = clock
    /\ pc' = "idle"
    /\ inv' = [inv EXCEPT !.outcome = "done", !.late = clock > newts,
                          !.lastStart = newts, !.lastEnd = clock,
                          !.log = Append(@, Message("Done crawling", total, 0))]
    /\ UNCHANGED <<poolVars, clock, store, newts, bugs, total, storeClientVars, writerVars>>

\* The while loop ends: the total is logged and the watermark set.
CrawlFinish ==
    /\ pc = "loop" /\ bugs = <<>>
    /\ watermark' = newts
    /\ pc' = "idle"
    /\ inv' = [inv EXCEPT !.outcome = "done", !.late = clock > newts,
                          !.lastStart = newts, !.lastEnd = clock,
                          !.log = Append(@, Message("Done crawling", total, 0))]
    /\ UNCHANGED <<poolVars, clock, store, newts, bugs, total, storeClientVars, writerVars>>

----------------------------------------------------------------------------
(* src/utils/misc.py: session_get_with_retries *)

\* The exceptions the except clause names.
RetriedErrors == {"ProtocolError", "ConnectionError"}

\* session_get_with_retries(session, url, tries) is called.
GetBegin ==
    /\ gpc = "idle"
    /\ \E n \in 1..MaxTries : tries0' = n /\ tries' = n
    /\ gpc' = "loop"
    /\ attempts' = <<>>
    /\ gret' = <<>>
    /\ UNCHANGED <<clock, store, storeClientVars, writerVars, crawlerVars,
                   repoVars, fetcherVars>>

\* while tries > 0: session.get(url) returns, and so does the function.
GetResponse ==
    /\ gpc = "loop" /\ tries > 0
    /\ attempts' = Append(attempts, "ok")
    /\ gret' = <<Len(attempts) + 1>>
    /\ gpc' = "returned"
    /\ UNCHANGED <<clock, store, storeClientVars, writerVars, crawlerVars,
                   repoVars, fetcherVars, tries0, tries>>

\* while tries > 0: session.get(url) raises one of the errors named; inside
\* the except clause tries > 0 holds as it held in the loop's condition, so
\* the warning is logged and tries goes down; the else: raise is not reached.
GetRetry ==
    /\ gpc = "loop" /\ tries > 0
    /\ \E error \in RetriedErrors : attempts' = Append(attempts, error)
    /\ IF tries > 0
       THEN tries' = tries - 1 /\ gpc' = "loop"
       ELSE tries' = tries /\ gpc' = "raised"
    /\ UNCHANGED <<clock, store, storeClientVars, writerVars, crawlerVars,
                   repoVars, fetcherVars, tries0, gret>>

\* while tries > 0: session.get(url) raises an exception the except clause
\* does not name.
GetOtherError ==
    /\ gpc = "loop" /\ tries > 0
    /\ attempts' = Append(attempts, "ReadTimeout")
    /\ gpc' = "raised"
    /\ UNCHANGED <<clock, store, storeClientVars, writerVars, crawlerVars,
                   repoVars, fetcherVars, tries0, tries, gret>>

\* The condition of the while is false: the function ends without a return
\* statement, which returns None.
GetExhausted ==
    /\ gpc = "loop" /\ ~(tries > 0)
    /\ gret' = <<>>
    /\ gpc' = "returned"
    /\ UNCHANGED <<clock, store, storeClientVars, writerVars, crawlerVars,
                   repoVars, fetcherVars, tries0, tries, attempts>>

----------------------------------------------------------------------------
(* src/utils/repos.py *)
(* A version or a release is the sequence of the segments rpm_vercmp sees  *)
(* in it: "1.0.1" is <<1, 0, 1>>, each a number (num) or a run of letters  *)
(* (val then ranks it among the runs of letters).                          *)

N(n) == [num |-> TRUE, val |-> n]
A(n) == [num |-> FALSE, val |-> n]

\* f"{version}-{release}" as rpm_vercmp reads it: the segments of the version,
\* then, after the separator, those of the release.
Joined(version, release) == version \o release

\* rpm_vercmp.vercmp on the segments of two strings: the first pair of
\* segments that differ decides, a number being newer than letters; if one
\* string runs out, the one with segments left is newer.
RECURSIVE vercmp(_, _)
vercmp(first, second) ==
    IF first = <<>> \/ second = <<>>
    THEN IF first = second THEN 0 ELSE IF first # <<>> THEN 1 ELSE 0 - 1
    ELSE IF first[1].num # second[1].num
         THEN IF first[1].num THEN 1 ELSE 0 - 1
         ELSE IF first[1].val < second[1].val THEN 0 - 1
         ELSE IF first[1].val > second[1].val THEN 1
         ELSE vercmp(Tail(first), Tail(second))

\* newest_package
newest_package(first, second) ==
    IF vercmp(Joined(first.version, first.release),
              Joined(second.version, second.release)) < 0
    THEN second ELSE first

base_url == "https://download.opensuse.org/source/tumbleweed/repo/oss/"

\* urljoin(base_url, href) for an href relative to the repository.
urljoin(base, href) == [base |-> base, href |-> href]

\* The <package> elements a primary.xml may list.
PrimaryEntries ==
    {[name |-> "pkg", arch |-> "src", version |-> <<N(1), N(0)>>,
      release |-> <<N(1)>>, href |-> "src/pkg-1.0-1.src.rpm"],
     [name |-> "pkg", arch |-> "src", version |-> <<N(1), N(0)>>,
      release |-> <<N(2)>>, href |-> "src/pkg-1.0-2.src.rpm"],
     [name |-> "pkg", arch |-> "src", version |-> <<N(1), N(0), N(1)>>,
      release |-> <<N(1)>>, href |-> "src/pkg-1.0.1-1.src.rpm"],
     [name |-> "pkg", arch |-> "nosrc", version |-> <<N(2), N(0)>>,
      release |-> <<N(1)>>, href |-> "nosrc/pkg-2.0-1.nosrc.rpm"],
     [name |-> "lib", arch |-> "src", version |-> <<N(1), N(0), A(1)>>,
      release |-> <<N(1)>>, href |-> "src/lib-1.0a-1.src.rpm"],
     [name |-> "lib", arch |-> "src", version |-> <<N(1), N(0)>>,
      release |-> <<N(3)>>, href |-> "src/lib-1.0-3.src.rpm"]}

PrimaryDocs == UNION {[1..n -> PrimaryEntries] : n \in 1..MaxEntries}

\* Package(str(package.name), ver, rel, urljoin(base_url, href))
PackageOf(entry) ==
    [name |-> entry.name, version |-> entry.version, release |-> entry.release,
     url |-> urljoin(base_url, entry.href)]

\* get_source_packages up to its loop: the metadata is downloaded and parsed.
GetSourcesBegin ==
    /\ rpc \in {"idle", "returned"}
    /\ \E d \in PrimaryDocs : doc' = d /\ primary' = d
    /\ packages' = <<>>
    /\ sources' = <<>>
    /\ lastCmp' = <<>>
    /\ rpc' = "loop"
    /\ UNCHANGED <<clock, store, storeClientVars, writerVars, crawlerVars,
                   getterVars, fetcherVars>>

\* One turn of 'for package in primary.package'.
GetSourcesStep ==
    /\ rpc = "loop" /\ primary # <<>>
    /\ primary' = Tail(primary)
    /\ LET package == Head(primary)
           pkg == PackageOf(package)
           known == {i \in 1..Len(packages) : packages[i].name = package.name}
       IN  IF package.arch # "src"
           THEN UNCHANGED <<packages, lastCmp>>
           ELSE IF known = {}
           THEN packages' = Append(packages, pkg) /\ UNCHANGED lastCmp
           ELSE LET i == CHOOSE k \in known : TRUE
                    newest == newest_package(packages[i], pkg)
                IN  /\ packages' = [packages EXCEPT ![i] = newest]
                    /\ lastCmp' = <<[first |-> packages[i], second |-> pkg,
                                     result |-> newest]>>
    /\ UNCHANGED <<clock, store, storeClientVars, writerVars, crawlerVars,
                   getterVars, fetcherVars, rpc, doc, sources>>

\* return [(pkg.name, pkg.url) for pkg in packages.values()]
GetSourcesReturn ==
    /\ rpc = "loop" /\ primary = <<>>
    /\ sources' = [i \in 1..Len(packages) |-> <<packages[i].name, packages[i].url>>]
    /\ rpc' = "returned"
    /\ UNCHANGED <<clock, store, storeClientVars, writerVars, crawlerVars,
                   getterVars, fetcherVars, doc, primary, packages, lastCmp>>

----------------------------------------------------------------------------
(* src/source_pool_fetcher.py *)
(* A target is a collection and a package; its package directory is a      *)
(* record of whether it exists, what .version_id holds (<<>>: no such      *)
(* file) and the files extracted into it. The URL of a package is a record *)
(* of its target and the version the file name carries.                    *)

\* Two of the collections of distro_paths, each with the package "pkg".
Targets == {<<"tumbleweed", "pkg">>, <<"leap-15.6", "pkg">>}

\* The entries of package_collection, in the order of distro_paths.
Listing(versions) ==
    <<[collection |-> "tumbleweed", package |-> "pkg",
       url |-> [target |-> <<"tumbleweed", "pkg">>,
                version |-> versions[<<"tumbleweed", "pkg">>]]],
      [collection |-> "leap-15.6", package |-> "pkg",
       url |-> [target |-> <<"leap-15.6", "pkg">>,
                version |-> versions[<<"leap-15.6", "pkg">>]]]>>

\* rpm.getmembers() of the rpm at a URL: a spec file and a tarball, and a
\* patch in the versions of even number.
Members(url) ==
    <<[name |-> "pkg.spec", data |-> url.version],
      [name |-> "pkg.tar", data |-> url.version]>>
    \o (IF url.version % 2 = 0
        THEN <<[name |-> "fix.patch", data |-> url.version]>> ELSE <<>>)

NoDirectory == [exists |-> FALSE, marker |-> <<>>, files |-> {}]

\* An ensure_package that empties the directory but for .version_id.
ensure_package_KeepsMarker(d, target, remove_contents) ==
    IF remove_contents /\ d[target].exists
    THEN [d EXCEPT ![target] = [exists |-> TRUE, marker |-> @.marker, files |-> {}]]
    ELSE [d EXCEPT ![target].exists = TRUE]

\* ensure_package: rmtree if asked to and the directory exists, then mkdir.
ensure_package(d, target, remove_contents) ==
    IF remove_contents /\ d[target].exists
    THEN [d EXCEPT ![target] = [exists |-> TRUE, marker |-> <<>>, files |-> {}]]
    ELSE [d EXCEPT ![target].exists = TRUE]

\* A write_package_version that writes the package's name.
write_package_version_Name(d, target, version_id) ==
    [ensure_package(d, target, FALSE) EXCEPT
        ![target].marker = <<[target |-> target, version |-> 0]>>]

\* write_package_version: .version_id holds version_id, replacing what it held.
write_package_version(d, target, version_id) ==
    [ensure_package(d, target, FALSE) EXCEPT ![target].marker = <<version_id>>]

\* check_package, its result: the file is there and holds version_id.
check_package(d, target, version_id) ==
    LET dir == ensure_package(d, target, FALSE)[target]
    IN  IF dir.marker = <<>> THEN FALSE ELSE dir.marker[1] = version_id

\* open(package_dir / member.name, "wb").write(...): the file of that name
\* holds the member's data.
WriteMember(d, target, member) ==
    [d EXCEPT ![target].files =
        {f \in @ : f.name # member.name} \cup {member}]

\* What a run of fetch_sources has been observed to do.
NoRun ==
    [listing |-> <<>>,       \* package_collection of the run
     checks |-> <<>>,        \* each check_package: its entry, what .version_id held
     downloads |-> <<>>,     \* the entries download_rpm was called for
     completed |-> FALSE,    \* the run returned
     repeat |-> FALSE]       \* the run before completed, with the same listing

\* fetch_sources up to its loop: the listing is read from the repositories.
FetchBegin ==
    /\ fpc = "idle" /\ nRuns < MaxRuns
    /\ nRuns' = nRuns + 1
    /\ fqueue' = Listing(metadata)
    /\ members' = <<>>
    /\ run' = [NoRun EXCEPT !.listing = Listing(metadata),
                            !.repeat = run.completed /\ run.listing = Listing(metadata)]
    /\ fpc' = "check"
    /\ UNCHANGED <<clock, store, storeClientVars, writerVars, crawlerVars,
                   repoVars, getterVars, metadata, disk>>

\* if not self.check_package(collection, package, package_url)
CheckPackage ==
    /\ fpc = "check" /\ fqueue # <<>>
    /\ LET entry == fqueue[1]
           target == <<entry.collection, entry.package>>
       IN  /\ disk' = ensure_package(disk, target, FALSE)
           /\ run' = [run EXCEPT !.checks = Append(@,
                        [url |-> entry.url, marker0 |-> disk[target].marker])]
           /\ IF check_package(disk, target, entry.url)
              THEN fqueue' = Tail(fqueue) /\ fpc' = "check"
              ELSE fqueue' = fqueue /\ fpc' = "clean"
    /\ UNCHANGED <<clock, store, storeClientVars, writerVars, crawlerVars,
                   repoVars, getterVars, metadata, members, nRuns>>

\* package_dir = self.ensure_package(collection, package, remove_contents=True)
EnsureClean ==
    /\ fpc = "clean"
    /\ disk' = ensure_package(disk, <<fqueue[1].collection, fqueue[1].package>>, TRUE)
    /\ fpc' = "download"
    /\ UNCHANGED <<clock, store, storeClientVars, writerVars, crawlerVars,
                   repoVars, getterVars, metadata, fqueue, members, nRuns, run>>

\* rpm = self.download_rpm(package_url)
Download ==
    /\ fpc = "download"
    /\ members' = Members(fqueue[1].url)
    /\ run' = [run EXCEPT !.downloads = Append(@, fqueue[1].url)]
    /\ fpc' = "extract"
    /\ UNCHANGED <<clock, store, storeClientVars, writerVars, crawlerVars,
                   repoVars, getterVars, metadata, disk, fqueue, nRuns>>

\* download_rpm raises (session.get or rpmfile.open): fetch_sources ends.
DownloadError ==
    /\ fpc = "download"
    /\ run' = [run EXCEPT !.downloads = Append(@, fqueue[1].url)]
    /\ fpc' = "idle"
    /\ fqueue' = <<>>
    /\ UNCHANGED <<clock, store, storeClientVars, writerVars, crawlerVars,
                   repoVars, getterVars, metadata, disk, members, nRuns>>

\* One turn of the loop over rpm.getmembers().
Extract ==
    /\ fpc = "extract" /\ members # <<>>
    /\ disk' = WriteMember(disk, <<fqueue[1].collection, fqueue[1].package>>,
                           Head(members))
    /\ members' = Tail(members)
    /\ UNCHANGED <<clock, store, storeClientVars, writerVars, crawlerVars,
                   repoVars, getterVars, metadata, fpc, fqueue, nRuns, run>>

\* self.write_package_version(collection, package, package_url), after the
\* last member; then the next entry.
WriteVersion ==
    /\ fpc = "extract" /\ members = <<>>
    /\ disk' = write_package_version(disk, <<fqueue[1].collection, fqueue[1].package>>,
                                     fqueue[1].url)
    /\ fqueue' = Tail(fqueue)
    /\ fpc' = "check"
    /\ UNCHANGED <<clock, store, storeClientVars, writerVars, crawlerVars,
                   repoVars, getterVars, metadata, members, nRuns, run>>

\* The loops are through: fetch_sources returns.
FetchDone ==
    /\ fpc = "check" /\ fqueue = <<>>
    /\ fpc' = "idle"
    /\ run' = [run EXCEPT !.completed = TRUE]
    /\ UNCHANGED <<clock, store, storeClientVars, writerVars, crawlerVars,
                   repoVars, getterVars, metadata, disk, fqueue, members, nRuns>>

\* The process is stopped between two steps of fetch_sources.
Interrupt ==
    /\ fpc # "idle"
    /\ fpc' = "idle"
    /\ fqueue' = <<>>
    /\ members' = <<>>
    /\ UNCHANGED <<clock, store, storeClientVars, writerVars, crawlerVars,
                   repoVars, getterVars, metadata, disk, nRuns, run>>

\* The repository publishes a new version of a package.
RepoUpdate ==
    /\ \E t \in Targets :
        /\ metadata[t] < MaxVersion
        /\ metadata' = [metadata EXCEPT ![t] = @ + 1]
    /\ UNCHANGED <<clock, store, storeClientVars, writerVars, crawlerVars,
                   repoVars, getterVars, disk, fpc, fqueue, members, nRuns, run>>

----------------------------------------------------------------------------
(* Two writers, each with its own connection to the same backing file.     *)
(* Every statement of add is a transaction of its own ("with self.db:"),   *)
(* so the statements of the two calls interleave.                          *)

Writers == {1, 2}

\* add up to its first statement: the checks, the encoding, the checksum.
WriterBegin(w) ==
    /\ wpc[w] = "idle"
    /\ \E filename \in Filenames, content \in Contents, producer \in Producers,
          origin \in Origins, timestamp \in Timestamps :
        IF Validate(filename, content, producer, origin, timestamp) # ""
        THEN /\ wpc' = [wpc EXCEPT ![w] = "returned"]
             /\ wrow' = wrow
        ELSE /\ wpc' = [wpc EXCEPT ![w] = "exists"]
             /\ wrow' = [wrow EXCEPT ![w] =
                    <<NewRow(filename, content, producer, origin, timestamp, clock)>>]
    /\ UNCHANGED <<poolVars, clock, store, wfound, wlast, storeClientVars, crawlerVars>>

\* self.exists(filename, producer, origin): the SELECT.
WriterExists(w) ==
    /\ wpc[w] = "exists"
    /\ wfound' = [wfound EXCEPT ![w] =
            exists(store, wrow[w][1].filename, wrow[w][1].producer, wrow[w][1].origin)]
    /\ wpc' = [wpc EXCEPT ![w] = "write"]
    /\ UNCHANGED <<poolVars, clock, store, wrow, wlast, storeClientVars, crawlerVars>>

\* The INSERT or the UPDATE, then return True.
WriterWrite(w) ==
    /\ wpc[w] = "write"
    /\ store' = WriteRow(store, wrow[w][1], wfound[w])
    /\ wlast' = w
    /\ wpc' = [wpc EXCEPT ![w] = "returned"]
    /\ UNCHANGED <<poolVars, clock, wrow, wfound, storeClientVars, crawlerVars>>

\* Nothing has been asked of the helpers of the source pool yet.
InitPool ==
    /\ gpc = "idle"
    /\ tries0 = 0
    /\ tries = 0
    /\ attempts = <<>>
    /\ gret = <<>>
    /\ metadata = [t \in Targets |-> 1]
    /\ disk = [t \in Targets |-> NoDirectory]
    /\ fpc = "idle"
    /\ fqueue = <<>>
    /\ members = <<>>
    /\ nRuns = 0
    /\ run = NoRun
    /\ rpc = "idle"
    /\ doc = <<>>
    /\ primary = <<>>
    /\ packages = <<>>
    /\ sources = <<>>
    /\ lastCmp = <<>>

Init ==
    /\ clock = 0
    /\ store = <<>>
    /\ nAdds = 0
    /\ lastCall = <<>>
    /\ prevRows = <<>>
    /\ lastSearch = <<>>
    /\ wpc = [w \in Writers |-> "idle"]
    /\ wrow = [w \in Writers |-> <<>>]
    /\ wfound = [w \in Writers |-> FALSE]
    /\ wlast = 0
    /\ watermark = 0
    /\ pc = "idle"
    /\ newts = 0
    /\ bugs = <<>>
    /\ total = 0
    /\ inv = NoInvocation
    /\ InitPool

\* Time passing between two calls of the client.
StoreTick ==
    /\ clock < MaxStoreClock
    /\ clock' = clock + 1
    /\ UNCHANGED <<poolVars, store, storeClientVars, writerVars, crawlerVars>>

NextStore == StoreAdd \/ StoreTick

SpecStore == Init /\ [][NextStore]_vars

NextStamp == ReAdd \/ StoreTick

SpecStamp == Init /\ [][NextStamp]_vars

NextSearch ==
    \/ AddPatch
    \/ ExistsCall
    \/ SearchByFilename
    \/ SearchByProducer
    \/ SearchByOrigin
    \/ SearchByContent

SpecSearch == Init /\ [][NextSearch]_vars

NextWriters ==
    \/ StoreTick
    \/ \E w \in Writers : WriterBegin(w)
    \/ \E w \in Writers : WriterExists(w)
    \/ \E w \in Writers : WriterWrite(w)

SpecWriters == Init /\ [][NextWriters]_vars

Next ==
    \/ Tick
    \/ CrawlBegin
    \/ QueryOk
    \/ QueryError
    \/ Fetch429
    \/ FetchHttpError
    \/ FetchError
    \/ FetchOk
    \/ CrawlFinish

Spec == Init /\ [][Next]_vars

\* The watermarks a crawler is constructed with (the command line passes
\* now less a number of days): so many whole days before the clock's zero,
\* or that and half an hour, an hour, or a day less half an hour.
SeedWatermarks ==
    {0 - (d * Day + h) : d \in 0..MaxSeedDays, h \in {0, 1, Hour, Day - 1}}

InitWindow ==
    /\ clock = 0
    /\ store = <<>>
    /\ nAdds = 0
    /\ lastCall = <<>>
    /\ prevRows = <<>>
    /\ lastSearch = <<>>
    /\ wpc = [w \in Writers |-> "idle"]
    /\ wrow = [w \in Writers |-> <<>>]
    /\ wfound = [w \in Writers |-> FALSE]
    /\ wlast = 0
    /\ watermark \in SeedWatermarks
    /\ pc = "idle"
    /\ newts = 0
    /\ bugs = <<>>
    /\ total = 0
    /\ inv = NoInvocation
    /\ InitPool

\* crawl() up to the answer to its query, entered at any time.
NextWindow ==
    \/ Tick
    \/ CrawlBegin
    \/ QueryOk

SpecWindow == InitWindow /\ [][NextWindow]_vars

\* A producer of another name adds a patch of the file name and of one of
\* the URLs the crawler's patches have.
OtherAdd ==
    /\ \E content \in Contents \ {<<>>}, origin \in {Url1, Url2} :
        store' = add(store, FixPatch, content, "A", origin, <<>>, clock).rows
    /\ UNCHANGED <<poolVars, clock, storeClientVars, writerVars, crawlerVars>>

\* A crawler constructed with a watermark an hour old, so that its first
\* invocation crawls.
InitShared ==
    /\ clock = 0
    /\ store = <<>>
    /\ nAdds = 0
    /\ lastCall = <<>>
    /\ prevRows = <<>>
    /\ lastSearch = <<>>
    /\ wpc = [w \in Writers |-> "idle"]
    /\ wrow = [w \in Writers |-> <<>>]
    /\ wfound = [w \in Writers |-> FALSE]
    /\ wlast = 0
    /\ watermark = 0 - Hour
    /\ pc = "idle"
    /\ newts = 0
    /\ bugs = <<>>
    /\ total = 0
    /\ inv = NoInvocation
    /\ InitPool

\* The crawler and a producer of another name on one store, the other
\* producer adding patches of the bugs' file name and URLs before, while
\* and after the crawler crawls.
NextShared ==
    \/ CrawlBegin
    \/ QueryOk
    \/ FetchOk
    \/ CrawlFinish
    \/ OtherAdd

SpecShared == InitShared /\ [][NextShared]_vars

NextRepo ==
    \/ GetSourcesBegin
    \/ GetSourcesStep
    \/ GetSourcesReturn

SpecRepo == Init /\ [][NextRepo]_vars

NextFetch ==
    \/ FetchBegin
    \/ CheckPackage
    \/ EnsureClean
    \/ Download
    \/ DownloadError
    \/ Extract
    \/ WriteVersion
    \/ FetchDone
    \/ Interrupt
    \/ RepoUpdate

SpecFetch == Init /\ [][NextFetch]_vars

NextGet ==
    \/ GetBegin
    \/ GetResponse
    \/ GetRetry
    \/ GetOtherError
    \/ GetExhausted

SpecGet == Init /\ [][NextGet]_vars

\* The crawler with a tracker that answers every query and, after however
\* many 429 answers, every fetch, and raises no other error.
NextLive ==
    \/ Tick
    \/ CrawlBegin
    \/ QueryOk
    \/ Fetch429
    \/ FetchOk
    \/ CrawlFinish

\* crawl() runs on once entered; the tracker does not hold back the answer
\* to a fetch for ever.
SpecLive ==
    /\ Init /\ [][NextLive]_vars
    /\ WF_vars(QueryOk) /\ WF_vars(FetchOk) /\ WF_vars(CrawlFinish)

----------------------------------------------------------------------------
(* Properties *)

KeyRows(rows, filename, producer, origin) ==
    {i \in DOMAIN rows : SameKey(rows[i], filename, producer, origin)}

OtherRows(rows, filename, producer, origin) ==
    SelectSeq(rows, LAMBDA r : ~SameKey(r, filename, producer, origin))

\* C1: after any sequence of add calls through one handle, valid or not,
\* the table holds at most one row for each (filename, producer, origin).
C1_OneRowPerKey ==
    \A i, j \in DOMAIN store :
        SameKey(store[i], store[j].filename, store[j].producer, store[j].origin)
            => i = j

\* An add for a key that is present, in a table of two rows.
C1_Witness ==
    /\ lastCall # <<>> /\ lastCall[1].result
    /\ Len(prevRows) = 2 /\ Len(store) = 2
    /\ exists(prevRows, lastCall[1].filename, lastCall[1].producer, lastCall[1].origin)

\* The last add call was valid, for a key that had a row of another content.
SecondAdd ==
    /\ lastCall # <<>> /\ lastCall[1].result
    /\ LET c == lastCall[1]
           old == KeyRows(prevRows, c.filename, c.producer, c.origin)
       IN  old # {} /\ \A i \in old : prevRows[i].content # b64encode(c.content)

\* C2: a valid add for a key that has a row of another content leaves exactly
\* one row for the key, with the content, checksum and timestamp of this call,
\* and leaves the rows of the other keys as they were.
C2_SecondAddWins ==
    SecondAdd =>
        LET c == lastCall[1]
            new == KeyRows(store, c.filename, c.producer, c.origin)
        IN  /\ Cardinality(new) = 1
            /\ \A i \in new :
                /\ store[i].content = b64encode(c.content)
                /\ store[i].checksum = <<"sha256", b64encode(c.content)>>
                /\ store[i].timestamp =
                      [t |-> IF c.timestamp = <<>> THEN c.now ELSE c.timestamp[1].t,
                       sep |-> " ", tail |-> ""]
            /\ OtherRows(store, c.filename, c.producer, c.origin)
                 = OtherRows(prevRows, c.filename, c.producer, c.origin)

\* Such a second add, with a row of another key present and a new timestamp.
C2_Witness ==
    /\ SecondAdd
    /\ Len(prevRows) = 2
    /\ \E i \in DOMAIN store : store[i].timestamp # prevRows[i].timestamp

\* The attachments the crawl hands to the store: patches changed strictly
\* after the watermark the invocation started with.
Wanted(attachments, timestamp0) ==
    SelectSeq(attachments,
              LAMBDA a : a.is_patch /\ a.last_change_time.t > timestamp0)

\* C3: for the attachments of a fetched bug, Store.add is called exactly for
\* the patches changed strictly after the watermark held when crawl() was
\* entered, once each and in order, with the crawler's name and the bug's URL.
C3_AddIffPatchAfterWatermark ==
    LET wanted == Wanted(inv.attachments, inv.timestamp0)
    IN  /\ Len(inv.calls) = Len(wanted)
        /\ \A i \in DOMAIN wanted :
            /\ inv.calls[i].filename = wanted[i].file_name
            /\ inv.calls[i].content = wanted[i].data
            /\ inv.calls[i].timestamp[1].t = wanted[i].last_change_time.t
            /\ inv.calls[i].producer = CrawlerName
            /\ inv.calls[i].origin = weburl(inv.processed[Len(inv.processed)])

\* The three attachments of test_crawl: no patch, a patch changed at the
\* watermark, a patch changed after it; only the third reached the store.
C3_Witness ==
    /\ inv.attachments = <<NotAPatch, PatchAt2, PatchAt3>>
    /\ inv.timestamp0 = 2
    /\ Len(inv.calls) = 1 /\ inv.calls[1].content = PatchAt3.data

\* C4: crawl() entered less than an hour after the watermark returns without
\* a query, a fetch or a Store.add, with the watermark unchanged and only the
\* skip message logged.
C4_DebouncedDoesNothing ==
    (inv.outcome # "none" /\ inv.now0 - inv.timestamp0 < Hour) =>
        /\ inv.outcome = "skipped" /\ pc = "idle"
        /\ inv.queries = <<>> /\ ~inv.attempted
        /\ inv.calls = <<>> /\ inv.accepted = 0
        /\ watermark = inv.timestamp0
        /\ inv.log = <<SkipMessage>>

\* A skipped invocation half an hour after a completed crawl.
C4_Witness ==
    /\ inv.outcome = "skipped"
    /\ inv.timestamp0 > 0 /\ inv.now0 = inv.timestamp0 + 1

\* C5: a fetch that fails with anything but a 429 ends the invocation: the
\* error is out of crawl(), the bug is not fetched again.
C5_OtherErrorsPropagate ==
    inv.response \in {"http error", "error"} => pc = "raised"

\* C6: the watermark changes only in the step that ends a crawl whose queue
\* drained; a step that raises leaves watermark and store as they are, the
\* watermark being the one the invocation started with, and the invocation
\* after it starts from that watermark.
C6_WatermarkOnlyOnDrain ==
    [][/\ watermark' # watermark =>
            /\ pc = "loop" /\ bugs = <<>>
            /\ pc' = "idle" /\ inv'.outcome = "done"
            /\ watermark' = newts
       /\ (pc' = "raised" /\ pc # "raised") =>
            /\ watermark' = watermark /\ watermark = inv.timestamp0
            /\ store' = store
            /\ inv'.outcome = "raised"
       /\ (pc = "raised" /\ pc' # "raised") =>
            /\ inv'.timestamp0 = inv.timestamp0
            /\ store' = store]_vars

\* An invocation aborted by a fetch error after it had stored a patch.
C6_Witness ==
    /\ pc = "raised" /\ inv.response = "error"
    /\ inv.accepted > 0 /\ store # <<>>
    /\ watermark = inv.timestamp0

\* C7: after a completed crawl the watermark is the clock value read when
\* crawl() was entered, whatever the clock shows at completion, and is later
\* than the watermark the invocation started with.
C7_WatermarkIsStartTime ==
    inv.outcome = "done" =>
        /\ watermark = inv.now0
        /\ watermark > inv.timestamp0
        /\ (inv.late => watermark < clock)

\* A crawl that completed after the clock had moved on.
C7_Witness ==
    inv.outcome = "done" /\ inv.late /\ inv.processed # <<>>

\* C8: whatever 429 answers come in between, the bugs whose attachments were
\* processed, followed by the queue, are the bugs the query returned, in its
\* order; a completed crawl has processed them all, and the total is the
\* number of adds that returned True.
C8_EveryBugOnceInOrder ==
    /\ inv.processed \o bugs = inv.result
    /\ total = inv.accepted
    /\ inv.outcome = "done" => inv.processed = inv.result

\* A completed, throttled crawl of two different bugs that stored patches.
C8_Witness ==
    /\ inv.outcome = "done" /\ inv.throttled
    /\ Len(inv.result) = 2 /\ inv.result[1] # inv.result[2]
    /\ total = 2

\* C9: a 429 answer leaves the bug at the head of the queue and the queue,
\* the total, the store and the watermark unchanged, and the crawler in its
\* loop; however many 429 answers came, the next fetch can be answered 429.
C9_ThrottleRetriesForever ==
    /\ [](pc = "loop" /\ bugs # <<>> => ENABLED Fetch429)
    /\ [][inv'.response = "429" =>
            /\ bugs' = bugs /\ bugs' # <<>>
            /\ total' = total
            /\ store' = store
            /\ watermark' = watermark
            /\ pc' = "loop"]_vars

\* MaxRetries consecutive 429 answers for the second bug of a crawl.
C9_Witness ==
    /\ pc = "loop" /\ inv.response = "429" /\ inv.retries = MaxRetries
    /\ inv.processed # <<>> /\ bugs # <<>> /\ store # <<>>

\* Both writers have returned from a valid add for the same key.
BothReturned ==
    /\ \A w \in Writers : wpc[w] = "returned" /\ wrow[w] # <<>>
    /\ SameKey(wrow[1][1], wrow[2][1].filename, wrow[2][1].producer,
               wrow[2][1].origin)

\* C10: once two interleaved adds for one key have returned, the key has
\* exactly one row, the row of the add whose write ran last.
C10_LastWriterWins ==
    BothReturned =>
        LET r == wrow[wlast][1]
            rows == KeyRows(store, r.filename, r.producer, r.origin)
        IN  Cardinality(rows) = 1 /\ \A i \in rows : store[i] = r

\* The last add call was valid, for a key that had a row.
ReAdded ==
    /\ lastCall # <<>> /\ lastCall[1].result
    /\ exists(prevRows, lastCall[1].filename, lastCall[1].producer,
              lastCall[1].origin)

\* The timestamp of the row of the last call's key, in a table.
KeyTime(rows) ==
    LET c == lastCall[1]
        i == CHOOSE i \in KeyRows(rows, c.filename, c.producer, c.origin) : TRUE
    IN  rows[i].timestamp.t

\* C11 as stated: no valid add for a key, with or without a timestamp of the
\* caller, leaves the key's row with an earlier timestamp than it had.
C11_TimestampNeverDecreases ==
    ReAdded => KeyTime(store) >= KeyTime(prevRows)

\* C11: a valid add for a key that has a row stores the caller's timestamp
\* when one is given, older than the stored one or not; an add that defaults
\* to the wall clock does not lower a stored timestamp that is not later
\* than the clock.
C11_DefaultedAddNeverLowers ==
    ReAdded =>
        LET c == lastCall[1]
        IN  /\ c.timestamp # <<>> => KeyTime(store) = c.timestamp[1].t
            /\ (c.timestamp = <<>> /\ KeyTime(prevRows) <= c.now)
                    => KeyTime(store) >= KeyTime(prevRows)

\* A patch added again, half an hour later, without a timestamp: the row's
\* timestamp moved forward.
C11_Witness ==
    /\ ReAdded /\ lastCall[1].timestamp = <<>>
    /\ KeyTime(prevRows) < lastCall[1].now
    /\ KeyTime(store) > KeyTime(prevRows)

\* The checks an add call violates, numbered in the order of the contract:
\* 1 filename given, 2 extension of a patch, 3 content given, 4 producer
\* given, 5 origin given, 6 timestamp, when given, parses.
ChecksViolated(c) ==
    {k \in 1..6 :
        \/ k = 1 /\ c.filename = <<>>
        \/ k = 2 /\ Extension(c.filename) \notin {<<"patch">>, <<"diff">>}
        \/ k = 3 /\ c.content = <<>>
        \/ k = 4 /\ c.producer = ""
        \/ k = 5 /\ c.origin = <<>>
        \/ k = 6 /\ c.timestamp # <<>> /\ ~IsoParses(c.timestamp[1])}

\* The reason logged for each check.
CheckReason ==
    <<"Storing a patch requires a filename to identify the patch",
      "Filename does not match that of a patch file",
      "Empty patch contents", "Empty producer", "Empty origin",
      "Invalid timestamp format">>

\* C12: an add call fails exactly when it violates some check, and then the
\* one reason it reports is that of the first check violated, in the order
\* filename, extension, content, producer, origin, timestamp; the reasons of
\* the six checks differ from each other.
C12_FirstViolatedCheckReported ==
    /\ \A j, k \in DOMAIN CheckReason : j # k => CheckReason[j] # CheckReason[k]
    /\ lastCall # <<>> =>
        LET c == lastCall[1]
            v == ChecksViolated(c)
        IN  /\ c.result <=> v = {}
            /\ c.result => c.reason = ""
            /\ v # {} =>
                c.reason = CheckReason[CHOOSE k \in v : \A j \in v : k <= j]

\* notes.txt without content, producer or origin and with a timestamp that
\* does not parse: five checks violated, the extension's reason reported.
C12_Witness ==
    /\ lastCall # <<>>
    /\ ChecksViolated(lastCall[1]) = 2..6
    /\ lastCall[1].reason = "Filename does not match that of a patch file"

\* C13: an add call that fails a check returns False with its reason, and
\* the table after it is the table before it, row for row; so too when the
\* timestamp is the only argument at fault and the key has a row.
C13_FailedAddChangesNothing ==
    (lastCall # <<>> /\ ChecksViolated(lastCall[1]) # {}) =>
        /\ ~lastCall[1].result /\ lastCall[1].reason # ""
        /\ store = prevRows

\* A failed add whose only fault is the timestamp, for a key whose row holds
\* another content.
C13_Witness ==
    /\ lastCall # <<>> /\ ~lastCall[1].result
    /\ ChecksViolated(lastCall[1]) = {6}
    /\ LET c == lastCall[1]
           old == KeyRows(prevRows, c.filename, c.producer, c.origin)
       IN  old # {} /\ \A i \in old : prevRows[i].content # b64encode(c.content)

\* The last lookup, made after the last add, was a search of the given kind.
Searched(op) == lastSearch # <<>> /\ lastSearch[1].op = op

\* C14 as stated: after a valid add(f, C, p, o) a search for content C yields
\* the record of (f, p, o) and no other, and a search for content that was
\* never stored yields nothing.
C14_ContentSearchFindsThatRecord ==
    (Searched("content") /\ lastCall # <<>> /\ lastCall[1].result) =>
        LET c == lastCall[1]
            s == lastSearch[1]
        IN  /\ s.term = c.content =>
                s.rows = SelectSeq(store,
                    LAMBDA r : SameKey(r, c.filename, c.producer, c.origin))
            /\ s.term \notin Contents => s.rows = <<>>

\* C14: a search for content C yields the records that hold C, all of them
\* and no other, in table order; after a valid add(f, C, p, o) the record of
\* (f, p, o) is one of them, once; content that no record holds yields
\* nothing.
C14_ContentSearchFindsEveryHolder ==
    Searched("content") =>
        LET s == lastSearch[1]
        IN  /\ s.rows = SelectSeq(store, LAMBDA r : r.content = b64encode(s.term))
            /\ (lastCall # <<>> /\ lastCall[1].result
                    /\ s.term = lastCall[1].content) =>
                    Cardinality({i \in DOMAIN s.rows :
                        SameKey(s.rows[i], lastCall[1].filename,
                                lastCall[1].producer, lastCall[1].origin)}) = 1
            /\ (\A i \in DOMAIN store : store[i].content # b64encode(s.term))
                    => s.rows = <<>>

\* A search for the content just added under one origin, which the patch of
\* the other origin holds too: two records.
C14_Witness ==
    /\ Searched("content")
    /\ lastCall # <<>> /\ lastCall[1].result
    /\ lastSearch[1].term = lastCall[1].content
    /\ Len(lastSearch[1].rows) = 2

\* p is a prefix of s, character for character.
IsPrefix(p, s) == Len(p) <= Len(s) /\ SubSeq(s, 1, Len(p)) = p

\* C15: a search by origin yields a record exactly when its origin starts
\* with the term, character for character: no character of the term stands
\* for others, and case counts.
C15_OriginSearchIsPlainPrefix ==
    Searched("origin") =>
        lastSearch[1].rows =
            SelectSeq(store, LAMBDA r : IsPrefix(lastSearch[1].term, r.origin))

\* The keys a lookup can ask for.
LookupKeys == {<<FixPatch, <<producer>>, origin>> :
                 producer \in {"A", "B"}, origin \in {Url1, Url2}}

SecondCrawl == pc = "loop" /\ inv.lastEnd > 0

\* The instant lies in the execution window of the last completed crawl:
\* strictly after its start, no later than its completion.
InLastWindow(t) == inv.lastStart < t /\ t <= inv.lastEnd

\* C17 as stated: the crawl after a completed crawl hands no attachment to
\* Store.add whose last-change time lies in the execution window of that
\* completed crawl.
C17_ChangedDuringCrawlExcluded ==
    SecondCrawl =>
        \A i \in DOMAIN inv.calls : ~InLastWindow(inv.calls[i].timestamp[1].t)

\* C17: the crawl after a completed crawl filters against that crawl's start
\* time, so it hands to Store.add every patch whose last-change time lies in
\* that crawl's execution window, and leaves out only what changed at or
\* before its start.
C17_ChangedDuringCrawlOfferedAgain ==
    SecondCrawl =>
        LET changed == SelectSeq(inv.attachments,
                LAMBDA a : a.is_patch /\ InLastWindow(a.last_change_time.t))
            offered == SelectSeq(inv.calls,
                LAMBDA c : InLastWindow(c.timestamp[1].t))
        IN  /\ inv.timestamp0 = inv.lastStart
            /\ Len(offered) = Len(changed)
            /\ \A i \in DOMAIN changed :
                /\ offered[i].filename = changed[i].file_name
                /\ offered[i].content = changed[i].data
            /\ \A i \in DOMAIN inv.calls :
                inv.calls[i].timestamp[1].t > inv.lastStart

\* A crawl entered at 2 returned at 3 or later; the next crawl finds a patch
\* changed at 3 and one changed at 2, and hands the first to the store.
C17_Witness ==
    /\ SecondCrawl /\ inv.lastStart = 2 /\ inv.lastEnd >= 3
    /\ inv.attachments = <<PatchAt3, PatchAt2>>
    /\ Len(inv.calls) = 1 /\ inv.calls[1].timestamp[1].t = 3

C20_DebounceBoundary ==
    inv.outcome # "none" =>
        /\ inv.outcome = "skipped" <=> inv.now0 < inv.timestamp0 + Hour
        /\ inv.outcome = "skipped" => watermark = inv.timestamp0 /\ pc = "idle"
        /\ inv.outcome # "skipped" => inv.log # <<>> /\ inv.log[1].msg = "Start crawling."
        /\ (inv.lastEnd > 0 /\ inv.outcome # "done") => inv.timestamp0 = inv.lastStart

\* A crawl entered exactly an hour after the start of the completed crawl
\* before it.
C20_Witness ==
    /\ inv.outcome = "running" /\ inv.lastEnd > 0
    /\ inv.now0 = inv.lastStart + Hour
    /\ inv.queries # <<>>

\* C18: with a tracker that in the end answers every fetch, a crawl that was
\* not debounced ends with its queue empty and the watermark at its start
\* time; while it runs the queue never grows, a fetch that succeeds takes
\* exactly its head away, and nothing else changes the queue.
C18_CrawlTerminates ==
    /\ (inv.outcome = "running") ~>
            (inv.outcome = "done" /\ pc = "idle" /\ bugs = <<>>
                /\ watermark = inv.now0)
    /\ [][pc = "loop" =>
            /\ Len(bugs') <= Len(bugs)
            /\ IF inv'.processed # inv.processed
               THEN bugs # <<>> /\ bugs' = Tail(bugs) /\ inv'.response = "ok"
               ELSE bugs' = bugs]_vars

\* A crawl of as many bugs as a query returns at most, throttled on its way,
\* that has ended.
C18_Witness ==
    /\ inv.outcome = "done" /\ pc = "idle" /\ bugs = <<>>
    /\ Len(inv.processed) = MaxBugs /\ inv.throttled
    /\ watermark = inv.now0

\* C21: a crawl that was not debounced has made one query by the time it
\* fetches, and the number of days n it asks for is the number of whole days
\* elapsed since the watermark plus one: (n - 1) days <= elapsed < n days,
\* so the window of n days reaches back beyond the watermark.
C21_QueryWindowCoversElapsed ==
    /\ pc = "query" => inv.queries = <<>>
    /\ (pc = "loop" \/ inv.outcome = "done") => Len(inv.queries) = 1
    /\ inv.queries # <<>> =>
        LET elapsed == inv.now0 - inv.timestamp0
            n == inv.queries[1]
        IN  /\ (n - 1) * Day <= elapsed
            /\ elapsed < n * Day

\* A crawl entered exactly one day after the watermark asks for two days.
C21_Witness ==
    /\ pc = "loop" /\ inv.queries = <<2>>
    /\ inv.now0 - inv.timestamp0 = Day

\* The rows of a producer, in table order.
RowsOf(rows, producer) == SelectSeq(rows, LAMBDA r : r.producer = producer)

\* C22: the crawler hands its own name and the URL of the bug to the store
\* with every patch; a step of the crawler leaves the rows of every other
\* producer as they are, and an add of another producer leaves the rows of
\* the crawler as they are, the same file name and origin or not.
C22_ProducersDoNotCollide ==
    [][/\ \A i \in DOMAIN inv'.calls :
            /\ inv'.calls[i].producer = CrawlerName
            /\ inv'.calls[i].origin = weburl(inv'.processed[Len(inv'.processed)])
       /\ crawlerVars' # crawlerVars =>
            /\ \A i \in DOMAIN store' :
                    (i \notin DOMAIN store \/ store'[i] # store[i])
                        => store'[i].producer = CrawlerName
            /\ RowsOf(store', "A") = RowsOf(store, "A")
       /\ crawlerVars' = crawlerVars =>
            RowsOf(store', CrawlerName) = RowsOf(store, CrawlerName)]_vars

\* The crawler has replaced its patch of a file name and URL under which the
\* other producer holds a patch too; both rows are there, each with its own
\* content.
C22_Witness ==
    /\ inv.accepted >= 2
    /\ \E i, j \in DOMAIN store :
        /\ store[i].producer = "A" /\ store[j].producer = CrawlerName
        /\ store[i].filename = store[j].filename
        /\ store[i].origin = store[j].origin
        /\ store[i].content # store[j].content
        /\ i < j

\* C23: the total a completed crawl logs is the number of its Store.add
\* calls that returned True, an update counted like an insert; for a crawl
\* that found no row of its own in the store, it is at least the number of
\* rows the crawler has in the store afterwards.
C23_TotalCountsAcceptedAdds ==
    inv.outcome = "done" =>
        /\ inv.log[Len(inv.log)] = Message("Done crawling", inv.accepted, 0)
        /\ total = inv.accepted
        /\ inv.accepted >= Len(RowsOf(store, CrawlerName))
        /\ inv.accepted >= Cardinality({i \in DOMAIN inv.calls : inv.calls[i].result})

\* Two bugs of one URL, each with the patch fix.patch: a total of two, one
\* row.
C23_Witness ==
    /\ inv.outcome = "done" /\ inv.result = <<1, 1>>
    /\ inv.log[Len(inv.log)].n = 2
    /\ Len(RowsOf(store, CrawlerName)) = 1

\* C24: session.get is called at most tries times, and, no error but a
\* connection or protocol error occurring, the call ends in one of two ways:
\* it returns the response of the first attempt that succeeded, or, every
\* one of the tries attempts having failed, it raises the error; it does not
\* return without a response.
C24_ReturnsResponseOrRaises ==
    /\ Len(attempts) <= tries0
    /\ (\A i \in DOMAIN attempts : attempts[i] \in RetriedErrors \cup {"ok"}) =>
        /\ gpc = "returned" =>
            /\ gret # <<>>
            /\ attempts[gret[1]] = "ok"
            /\ \A i \in 1..(gret[1] - 1) : attempts[i] # "ok"
        /\ gpc = "raised" =>
            /\ Len(attempts) = tries0
            /\ \A i \in DOMAIN attempts : attempts[i] \in RetriedErrors
        /\ (Len(attempts) = tries0 /\ gpc # "idle"
                /\ \A i \in DOMAIN attempts : attempts[i] \in RetriedErrors)
            => gpc \in {"loop", "raised"}

\* The URLs of the checks that found .version_id absent or different.
StaleUrls ==
    LET stale == SelectSeq(run.checks, LAMBDA c : c.marker0 # <<c.url>>)
    IN  [i \in 1..Len(stale) |-> stale[i].url]

\* C25: fetch_sources calls download_rpm for exactly the entries whose
\* .version_id was absent or held something other than the entry's URL when
\* it was checked; once a run has returned, check_package is true for every
\* entry of its listing with the URL of that entry; and a run that follows a
\* completed run with the same listing downloads nothing.
C25_DownloadsExactlyTheStale ==
    /\ Len(run.downloads) <= Len(StaleUrls)
    /\ Len(StaleUrls) <= Len(run.downloads) + 1
    /\ \A i \in 1..Len(run.downloads) : run.downloads[i] = StaleUrls[i]
    /\ (fpc \in {"check", "extract"} \/ run.completed) => run.downloads = StaleUrls
    /\ run.completed =>
          /\ Len(run.checks) = Len(run.listing)
          /\ \A i \in 1..Len(run.listing) :
                /\ run.checks[i].url = run.listing[i].url
                /\ check_package(disk, <<run.listing[i].collection,
                                         run.listing[i].package>>, run.listing[i].url)
    /\ run.repeat => run.downloads = <<>>

\* A second run over an unchanged listing has returned, every entry checked.
C25_Witness ==
    /\ run.repeat /\ run.completed /\ fpc = "idle"
    /\ Len(run.checks) = Len(run.listing)
    /\ \A t \in Targets : disk[t].files # {}

Older(first, second) ==
    LET v == vercmp(first.version, second.version)
    IN  IF v # 0 THEN v < 0 ELSE vercmp(first.release, second.release) < 0

\* C27: newest_package returns its second argument exactly when the first is
\* strictly older in version and release, and the first otherwise; and
\* get_source_packages returns one (name, url) per name of a source package,
\* that of an entry of the name than which no entry of the name is newer.
C27_NewestIsGreatest ==
    /\ \A i \in 1..Len(lastCmp) :
          lastCmp[i].result =
              (IF Older(lastCmp[i].first, lastCmp[i].second)
               THEN lastCmp[i].second ELSE lastCmp[i].first)
    /\ rpc = "returned" =>
          LET src == SelectSeq(doc, LAMBDA p : p.arch = "src")
              names == {src[i].name : i \in 1..Len(src)}
          IN  /\ {sources[i][1] : i \in 1..Len(sources)} = names
              /\ Len(sources) = Cardinality(names)
              /\ \A i \in 1..Len(sources) :
                    \E j \in 1..Len(src) :
                        /\ src[j].name = sources[i][1]
                        /\ urljoin(base_url, src[j].href) = sources[i][2]
                        /\ \A k \in 1..Len(src) :
                              src[k].name = src[j].name
                                  => ~Older(PackageOf(src[j]), PackageOf(src[k]))

====
